---------------------------- MODULE Spec2Model ----------------------------
(***************************************************************************)
(* A model of src/ytsummarize.py: the URL parser extract_video_id, the     *)
(* transcript acquisition fetch_transcript with its audio fallback          *)
(* (download_audio, transcribe_audio), and main.                            *)
(*                                                                         *)
(* Strings are modelled at the granularity of tokens: a URL is a sequence  *)
(* of the tokens of Tok, each standing for the literal text it spells.     *)
(* The separators of urlparse, parse_qs and the regular expression ("/",   *)
(* "?", "&", "=", "://") occur only as tokens of their own or at the end   *)
(* of a token ("https://", "v="), and no token is the start of another, so *)
(* splitting the text and splitting the token sequence agree.              *)
(*                                                                         *)
(* The four external services (caption listing/fetch, audio download,      *)
(* speech-to-text, text generation) are opaque: each call returns or       *)
(* raises, chosen nondeterministically.                                    *)
(***************************************************************************)
EXTENDS Naturals, Sequences, FiniteSets

\* ------------------------------------------------------------- bounds
\* longest URL, in tokens, that the parser specification enumerates
MaxUrlLen == 5
\* longest caption-track list the listing call returns
MaxTracks == 3
\* number of program invocations in one behaviour
MaxRuns == 2

\* ------------------------------------------------------------- values
\* Python's None, for values that are token sequences otherwise
None == <<"None">>

Tok == {"https://", "www.", "youtube.com", "youtu.be", "/", "?", "&", "v=", "a"}

AllUrls == UNION {[1..n -> Tok] : n \in 0..MaxUrlLen}

\* ------------------------------------------------------------- URL parser

\* index of the first element of s at or after i that is in S, Len(s)+1 if none
RECURSIVE FindFrom(_, _, _)
FindFrom(s, i, S) ==
    IF i > Len(s) THEN Len(s) + 1
    ELSE IF s[i] \in S THEN i
    ELSE FindFrom(s, i + 1, S)

\* tokens made of scheme characters only (letters, digits, "+", "-", ".")
SchemeTok == {"www.", "youtube.com", "youtu.be", "a"}

\* where urlparse finds the network location: after "<scheme>://" when the
\* text before the first ":" (the one of the first "https://") is made of
\* scheme characters, else after a leading "//"; 0 when there is none.
NetlocStart(u) ==
    LET k == FindFrom(u, 1, {"https://"})
    IN  IF k <= Len(u) /\ \A i \in 1..(k - 1) : u[i] \in SchemeTok
        THEN k + 1
        ELSE IF Len(u) >= 2 /\ u[1] = "/" /\ u[2] = "/" THEN 3 ELSE 0

\* urlparse(url).hostname: the network location ends before the first "/" or
\* "?"; the hostname is None when there is no network location or it is empty.
Hostname(u) ==
    LET b == NetlocStart(u)
        e == FindFrom(u, b, {"/", "?"})
    IN  IF b = 0 \/ e = b THEN None ELSE SubSeq(u, b, e - 1)

\* urlparse(url).query: what follows the first "?"
Query(u) ==
    LET q == FindFrom(u, 1, {"?"})
    IN  SubSeq(u, q + 1, Len(u))

\* parse_qs(query).get("v", [None])[0]: the fields are separated by "&"; a
\* field counts for v when its name, the text before its first "=", is "v" and
\* its value is not blank (keep_blank_values is off); the first one wins.
RECURSIVE FirstV(_)
FirstV(q) ==
    IF q = <<>> THEN None
    ELSE LET e     == FindFrom(q, 1, {"&"})
             field == SubSeq(q, 1, e - 1)
             rest  == SubSeq(q, e + 1, Len(q))
         IN  IF Len(field) >= 2 /\ field[1] = "v="
             THEN Tail(field)
             ELSE FirstV(rest)

\* re.match(r"(?:https?://)?(?:www\.)?youtu\.be/([^?&]+)", url): anchored at
\* the start of the text, group 1 is the longest run without "?" or "&".
ShortLinkMatch(u) ==
    LET a == IF Len(u) >= 1 /\ u[1] = "https://" THEN 2 ELSE 1
        b == IF Len(u) >= a /\ u[a] = "www." THEN a + 1 ELSE a
    IN  IF Len(u) >= b + 1 /\ u[b] = "youtu.be" /\ u[b + 1] = "/"
        THEN LET e == FindFrom(u, b + 2, {"?", "&"})
             IN  IF e > b + 2 THEN SubSeq(u, b + 2, e - 1) ELSE None
        ELSE None

\* the host test accepting every host
HostIsCanonical_AnyHost(h) == h # None

\* parsed_url.hostname in ["www.youtube.com", "youtube.com"]
HostIsCanonical(h) == h \in {<<"www.", "youtube.com">>, <<"youtube.com">>}

extract_video_id(u) ==
    IF HostIsCanonical(Hostname(u))
    THEN FirstV(Query(u))
    ELSE ShortLinkMatch(u)

\* ------------------------------------------------------------- the program

\* at most two invocations of the program are alive at the same time
Procs == {1, 2}

\* the URLs typed at the prompt of main: the scenarios of the specification's
\* section 8 ("a" stands for a path segment or an identifier character), and
\* the two canonical-host URLs that carry no usable v
UrlWatch    == <<"https://", "www.", "youtube.com", "/", "a", "?", "v=", "a">>
UrlShort    == <<"https://", "youtu.be", "/", "a", "a", "?", "a">>
UrlNotAUrl  == <<"a">>
UrlNoV      == <<"https://", "youtube.com", "/", "a">>
UrlBlankV   == <<"https://", "youtube.com", "/", "a", "?", "v=">>
SampleUrls  == {UrlWatch, UrlShort, UrlNotAUrl, UrlNoV, UrlBlankV}

\* os.path.join(tempfile.gettempdir(), "youtube_audio.mp3"): one fixed path
output_path == <<"youtube_audio.mp3">>

\* the file at output_path: the video whose audio it holds and the invocation
\* that wrote it; NoFile when nothing is there
NoFile == [video |-> <<>>, inv |-> 0]

\* a caption track: t.is_generated and t.language_code
LangCodes == <<"l1", "l2", "l3", "l4", "l5">>
NoTrack   == [is_generated |-> FALSE, language_code |-> "None"]
TrackLists ==
    UNION {{[i \in 1..n |-> [is_generated |-> g[i], language_code |-> LangCodes[i]]] :
              g \in [1..n -> BOOLEAN]} : n \in 0..MaxTracks}

\* what fetch_transcript hands back to main
Pending == [how |-> "pending", text |-> None, error |-> None]
Raised  == [how |-> "raised", text |-> None, error |-> None]
Return(text, error) == [how |-> "returned", text |-> text, error |-> error]

VARIABLES
    file,            \* the file at output_path, shared by every invocation
    started,         \* number of invocations started so far
    pc,              \* where each invocation is
    inv,             \* the number of the invocation a process runs, 0 when idle
    video_url,       \* main: video_url
    video_id,        \* fetch_transcript: video_id
    transcripts,     \* fetch_transcript: transcripts
    best_transcript, \* fetch_transcript: best_transcript
    listed,          \* how the listing call ended
    fetched,         \* how best_transcript.fetch() ended
    audio_path,      \* fetch_transcript: audio_path
    downloaded,      \* how the download backend ended
    heard,           \* the file content transcribe_audio opened
    ret,             \* what fetch_transcript handed to main
    summarized,      \* how the summarizer call ended
    calls,           \* the external calls made so far, in order
    out              \* what main printed so far, in order

vars == <<file, started, pc, inv, video_url, video_id, transcripts,
          best_transcript, listed, fetched, audio_path, downloaded, heard, ret,
          summarized, calls, out>>

locals == <<video_url, video_id, transcripts, best_transcript, listed,
            fetched, audio_path, downloaded, heard, ret, summarized, calls, out>>

Call(svc, arg) == [svc |-> svc, arg |-> arg]

\* the test video_id == "" in place of truthiness
Falsy_OnlyEmpty(v) == v = <<>>

\* Python truthiness of an optional string: None and "" are false
Falsy(v) == v = None \/ v = <<>>

InitLocals ==
    /\ video_url = [p \in Procs |-> <<>>]
    /\ video_id = [p \in Procs |-> None]
    /\ transcripts = [p \in Procs |-> <<>>]
    /\ best_transcript = [p \in Procs |-> NoTrack]
    /\ listed = [p \in Procs |-> "none"]
    /\ fetched = [p \in Procs |-> "none"]
    /\ audio_path = [p \in Procs |-> None]
    /\ downloaded = [p \in Procs |-> "none"]
    /\ heard = [p \in Procs |-> NoFile]
    /\ summarized = [p \in Procs |-> "none"]
    /\ ret = [p \in Procs |-> Pending]
    /\ calls = [p \in Procs |-> <<>>]
    /\ out = [p \in Procs |-> <<>>]

Init ==
    /\ file = NoFile
    /\ started = 0
    /\ pc = [p \in Procs |-> "idle"]
    /\ inv = [p \in Procs |-> 0]
    /\ InitLocals

\* main, lines 118-121: the prompts; fetch_transcript is entered next
Start(p) ==
    /\ pc[p] = "idle"
    /\ started < MaxRuns
    /\ started' = started + 1
    /\ inv' = [inv EXCEPT ![p] = started + 1]
    /\ \E u \in SampleUrls : video_url' = [video_url EXCEPT ![p] = u]
    /\ pc' = [pc EXCEPT ![p] = "fetch_transcript"]
    /\ UNCHANGED <<file, video_id, transcripts, best_transcript, listed,
                   fetched, audio_path, heard, ret, calls, out, downloaded,
                   summarized>>

\* fetch_transcript, lines 42-44
ExtractVideoId(p) ==
    /\ pc[p] = "fetch_transcript"
    /\ LET id == extract_video_id(video_url[p])
       IN  /\ video_id' = [video_id EXCEPT ![p] = id]
           /\ IF Falsy(id)
              THEN /\ ret' = [ret EXCEPT ![p] = Return(None, <<"Invalid YouTube URL.">>)]
                   /\ pc' = [pc EXCEPT ![p] = "main_check"]
              ELSE /\ ret' = ret
                   /\ pc' = [pc EXCEPT ![p] = "list_transcripts"]
    /\ UNCHANGED <<file, started, inv, video_url, transcripts, best_transcript,
                   listed, fetched, audio_path, heard, calls, out, downloaded,
                   summarized>>

\* lines 54-57: next(<manual tracks>, next(<generated tracks>, None)); every
\* "for t in transcripts" walks the list from its start
RECURSIVE FirstWith(_, _, _)
FirstWith(ts, gen, i) ==
    IF i > Len(ts) THEN NoTrack
    ELSE IF ts[i].is_generated = gen THEN ts[i]
    ELSE FirstWith(ts, gen, i + 1)

\* the choice of the first listed track, whatever its kind
SelectBest_FirstListed(ts) == IF ts = <<>> THEN NoTrack ELSE ts[1]

SelectBest(ts) ==
    LET auto   == FirstWith(ts, TRUE, 1)
        manual == FirstWith(ts, FALSE, 1)
    IN  IF manual # NoTrack THEN manual ELSE auto

\* str(e) of the failure caught at line 72
ErrorOf(e) == <<"Error: ", e>>

\* fetch_transcript, lines 46-60 (and the handlers of lines 66 and 72 they
\* reach): the listing call, then the choice of best_transcript.  The debug
\* prints of lines 49-51 walk the list and change nothing.
\* Line 60 raises the class TranscriptsDisabled, which Python instantiates
\* with no argument.  The class is imported at line 3 from
\* youtube_transcript_api; when its constructor accepts that, the handler of
\* line 66 is entered, and when it requires the video id the instantiation
\* raises TypeError, which is an Exception and enters the handler of line 72.
ListTranscripts(p) ==
    /\ pc[p] = "list_transcripts"
    /\ calls' = [calls EXCEPT ![p] = Append(@, Call("list_transcripts", video_id[p]))]
    /\ \/ /\ listed' = [listed EXCEPT ![p] = "disabled"]
          /\ pc' = [pc EXCEPT ![p] = "download_audio"]
          /\ UNCHANGED <<transcripts, best_transcript, ret>>
       \/ /\ listed' = [listed EXCEPT ![p] = "error"]
          /\ ret' = [ret EXCEPT ![p] = Return(None, ErrorOf("list_transcripts"))]
          /\ pc' = [pc EXCEPT ![p] = "main_check"]
          /\ UNCHANGED <<transcripts, best_transcript>>
       \/ \E ts \in TrackLists :
            /\ transcripts' = [transcripts EXCEPT ![p] = ts]
            /\ best_transcript' = [best_transcript EXCEPT ![p] = SelectBest(ts)]
            /\ IF SelectBest(ts) = NoTrack
               THEN /\ listed' = [listed EXCEPT ![p] = "empty"]
                    /\ \/ /\ pc' = [pc EXCEPT ![p] = "download_audio"]
                          /\ ret' = ret
                       \/ /\ ret' = [ret EXCEPT ![p] = Return(None, ErrorOf("TypeError"))]
                          /\ pc' = [pc EXCEPT ![p] = "main_check"]
               ELSE /\ listed' = [listed EXCEPT ![p] = "tracks"]
                    /\ pc' = [pc EXCEPT ![p] = "fetch"]
                    /\ ret' = ret
    /\ UNCHANGED <<file, started, inv, video_url, video_id, fetched,
                   audio_path, heard, out, downloaded, summarized>>

\* " ".join(t["text"] for t in transcript): the text of one track of one video
CaptionText(id, t) == <<"captions", t.language_code>> \o id

\* fetch_transcript, lines 62-64 (and the handlers of lines 66 and 72).
\* Nothing reads transcripts or best_transcript after line 62, so the model
\* drops both here, whichever way the call ends.
FetchTrack(p) ==
    /\ pc[p] = "fetch"
    /\ calls' = [calls EXCEPT ![p] =
                   Append(@, Call("fetch", <<best_transcript[p].language_code>>))]
    /\ \/ /\ fetched' = [fetched EXCEPT ![p] = "ok"]
          /\ ret' = [ret EXCEPT ![p] =
                       Return(CaptionText(video_id[p], best_transcript[p]), None)]
          /\ pc' = [pc EXCEPT ![p] = "main_check"]
       \/ /\ fetched' = [fetched EXCEPT ![p] = "disabled"]
          /\ pc' = [pc EXCEPT ![p] = "download_audio"]
          /\ ret' = ret
       \/ /\ fetched' = [fetched EXCEPT ![p] = "error"]
          /\ ret' = [ret EXCEPT ![p] = Return(None, ErrorOf("fetch"))]
          /\ pc' = [pc EXCEPT ![p] = "main_check"]
    /\ transcripts' = [transcripts EXCEPT ![p] = <<>>]
    /\ best_transcript' = [best_transcript EXCEPT ![p] = NoTrack]
    /\ UNCHANGED <<file, started, inv, video_url, video_id, listed,
                   audio_path, heard, out, downloaded, summarized>>

\* a backend that leaves an existing file alone
Written_KeepExisting(old, new) == IF old = NoFile THEN new ELSE old

\* what ydl.download leaves at outtmpl when it writes: the audio of the video
\* it was given, in place of whatever was there
Written(old, new) == new

\* os.path.exists(output_path)
Exists(f) == f # NoFile

\* line 68 and download_audio, lines 76-100.  The backend writes the file and
\* returns, throws before writing, throws after writing, or returns without
\* having written.
DownloadOutcomes == {"wrote", "threw", "threw_wrote", "skipped"}

\* download_audio without the return None of line 94
DownloadResult_ExistsOnly(o, f) == IF Exists(f) THEN output_path ELSE None

\* what download_audio returns, lines 92-100
DownloadResult(o, f) ==
    IF o \in {"threw", "threw_wrote"} THEN None
    ELSE IF ~Exists(f) THEN None
    ELSE output_path

DownloadAudio(p) ==
    /\ pc[p] = "download_audio"
    /\ calls' = [calls EXCEPT ![p] = Append(@, Call("download", video_url[p]))]
    /\ \E o \in DownloadOutcomes :
         /\ file' = IF o \in {"wrote", "threw_wrote"}
                    THEN Written(file, [video |-> video_url[p], inv |-> inv[p]])
                    ELSE file
         /\ audio_path' = [audio_path EXCEPT ![p] = DownloadResult(o, file')]
         /\ downloaded' = [downloaded EXCEPT ![p] = o]
    /\ pc' = [pc EXCEPT ![p] = "transcribe_audio"]
    /\ UNCHANGED <<started, inv, video_url, video_id, transcripts,
                   best_transcript, listed, fetched, heard, ret, out,
                   summarized>>

\* result["text"]: the text of the audio that was sent
SpokenText(f) == <<"stt">> \o f.video

\* lines 69-70 and transcribe_audio, lines 103-113.  open(None) raises; any
\* exception here is raised inside the handler of line 66, which the handler
\* of line 72 does not cover, and main calls fetch_transcript outside its try:
\* the exception ends the program.
TranscribeAudio(p) ==
    /\ pc[p] = "transcribe_audio"
    /\ IF audio_path[p] = None
       THEN /\ calls' = [calls EXCEPT ![p] = Append(@, Call("transcribe_audio", None))]
            /\ ret' = [ret EXCEPT ![p] = Raised]
            /\ pc' = [pc EXCEPT ![p] = "crashed"]
            /\ heard' = heard
       ELSE /\ calls' = [calls EXCEPT ![p] =
                           @ \o <<Call("transcribe_audio", audio_path[p]),
                                  Call("speech_to_text", file.video)>>]
            /\ heard' = [heard EXCEPT ![p] = file]
            /\ \/ /\ ret' = [ret EXCEPT ![p] = Return(SpokenText(file), None)]
                  /\ pc' = [pc EXCEPT ![p] = "main_check"]
               \/ /\ ret' = [ret EXCEPT ![p] = Raised]
                  /\ pc' = [pc EXCEPT ![p] = "crashed"]
    /\ UNCHANGED <<file, started, inv, video_url, video_id, transcripts,
                   best_transcript, listed, fetched, audio_path, out,
                   downloaded, summarized>>

\* MainCheck without the return of line 126
MainCheck_NoReturn(p) ==
    /\ pc[p] = "main_check"
    /\ IF ~Falsy(ret[p].error)
       THEN out' = [out EXCEPT ![p] = Append(@, <<"Error: ">> \o ret[p].error)]
       ELSE out' = [out EXCEPT ![p] = Append(@, <<"Transcript successfully fetched.">>)]
    /\ pc' = [pc EXCEPT ![p] = "summarize"]
    /\ UNCHANGED <<file, started, inv, video_url, video_id, transcripts,
                   best_transcript, listed, fetched, audio_path, heard, ret, calls,
                   downloaded, summarized>>

\* main, lines 122-128
MainCheck(p) ==
    /\ pc[p] = "main_check"
    /\ IF ~Falsy(ret[p].error)
       THEN /\ out' = [out EXCEPT ![p] = Append(@, <<"Error: ">> \o ret[p].error)]
            /\ pc' = [pc EXCEPT ![p] = "done"]
       ELSE /\ out' = [out EXCEPT ![p] = Append(@, <<"Transcript successfully fetched.">>)]
            /\ pc' = [pc EXCEPT ![p] = "summarize"]
    /\ UNCHANGED <<file, started, inv, video_url, video_id, transcripts,
                   best_transcript, listed, fetched, audio_path, heard, ret, calls,
                   downloaded, summarized>>

Header == <<"=== Video Summary ===">>

SummarizationError == <<"Error during summarization: ", "e">>

\* response.text: the generated summary of the text that was sent
SummaryOf(text) == <<"summary of">> \o text

\* Summarize with the header printed before the summarizer is called
Summarize_HeaderFirst(p) ==
    /\ pc[p] = "summarize"
    /\ calls' = [calls EXCEPT ![p] = Append(@, Call("generate_content", ret[p].text))]
    /\ \/ /\ summarized' = [summarized EXCEPT ![p] = "ok"]
          /\ out' = [out EXCEPT ![p] = @ \o <<Header, SummaryOf(ret[p].text)>>]
       \/ /\ summarized' = [summarized EXCEPT ![p] = "failed"]
          /\ out' = [out EXCEPT ![p] = @ \o <<Header, SummarizationError>>]
    /\ pc' = [pc EXCEPT ![p] = "done"]
    /\ UNCHANGED <<file, started, inv, video_url, video_id, transcripts,
                   best_transcript, listed, fetched, audio_path, heard, ret,
                   downloaded>>

\* main, lines 130-136, and summarizeyt_with_gemini, lines 21-26
Summarize(p) ==
    /\ pc[p] = "summarize"
    /\ calls' = [calls EXCEPT ![p] = Append(@, Call("generate_content", ret[p].text))]
    /\ \/ /\ summarized' = [summarized EXCEPT ![p] = "ok"]
          /\ out' = [out EXCEPT ![p] = @ \o <<Header, SummaryOf(ret[p].text)>>]
       \/ /\ summarized' = [summarized EXCEPT ![p] = "failed"]
          /\ out' = [out EXCEPT ![p] = Append(@, SummarizationError)]
    /\ pc' = [pc EXCEPT ![p] = "done"]
    /\ UNCHANGED <<file, started, inv, video_url, video_id, transcripts,
                   best_transcript, listed, fetched, audio_path, heard, ret,
                   downloaded>>

\* the process ends (main returned, or an exception left it): nothing of it
\* remains but the file at output_path
Exit(p) ==
    /\ pc[p] \in {"done", "crashed"}
    /\ pc' = [pc EXCEPT ![p] = "idle"]
    /\ inv' = [inv EXCEPT ![p] = 0]
    /\ video_url' = [video_url EXCEPT ![p] = <<>>]
    /\ video_id' = [video_id EXCEPT ![p] = None]
    /\ transcripts' = [transcripts EXCEPT ![p] = <<>>]
    /\ best_transcript' = [best_transcript EXCEPT ![p] = NoTrack]
    /\ listed' = [listed EXCEPT ![p] = "none"]
    /\ fetched' = [fetched EXCEPT ![p] = "none"]
    /\ audio_path' = [audio_path EXCEPT ![p] = None]
    /\ downloaded' = [downloaded EXCEPT ![p] = "none"]
    /\ heard' = [heard EXCEPT ![p] = NoFile]
    /\ summarized' = [summarized EXCEPT ![p] = "none"]
    /\ ret' = [ret EXCEPT ![p] = Pending]
    /\ calls' = [calls EXCEPT ![p] = <<>>]
    /\ out' = [out EXCEPT ![p] = <<>>]
    /\ UNCHANGED <<file, started>>

\* the steps of an invocation once started
Step(p) ==
    \/ ExtractVideoId(p)
    \/ ListTranscripts(p)
    \/ FetchTrack(p)
    \/ DownloadAudio(p)
    \/ TranscribeAudio(p)
    \/ MainCheck(p)
    \/ Summarize(p)
    \/ Exit(p)

\* successive invocations: one starts when no other is alive
StartAlone(p) ==
    /\ \A q \in Procs : pc[q] = "idle"
    /\ Start(p)

Next == \E p \in Procs : StartAlone(p) \/ Step(p)

Spec == Init /\ [][Next]_vars

\* concurrent invocations: the program is started while another one runs
NextConc == \E p \in Procs : Start(p) \/ Step(p)

SpecConc == Init /\ [][NextConc]_vars

\* the parser alone, on every URL of at most MaxUrlLen tokens
InitUrl ==
    /\ file = NoFile
    /\ started = 1
    /\ pc = [p \in Procs |-> IF p = 1 THEN "fetch_transcript" ELSE "idle"]
    /\ inv = [p \in Procs |-> IF p = 1 THEN 1 ELSE 0]
    /\ \E u \in AllUrls : video_url = [p \in Procs |-> IF p = 1 THEN u ELSE <<>>]
    /\ video_id = [p \in Procs |-> None]
    /\ transcripts = [p \in Procs |-> <<>>]
    /\ best_transcript = [p \in Procs |-> NoTrack]
    /\ listed = [p \in Procs |-> "none"]
    /\ fetched = [p \in Procs |-> "none"]
    /\ audio_path = [p \in Procs |-> None]
    /\ downloaded = [p \in Procs |-> "none"]
    /\ heard = [p \in Procs |-> NoFile]
    /\ summarized = [p \in Procs |-> "none"]
    /\ ret = [p \in Procs |-> Pending]
    /\ calls = [p \in Procs |-> <<>>]
    /\ out = [p \in Procs |-> <<>>]

NextUrl == \E p \in Procs : ExtractVideoId(p)

SpecUrl == InitUrl /\ [][NextUrl]_vars

\* ------------------------------------------------------------- claims

\* the external calls of process p, by service
CallsTo(p, svc) == {i \in 1..Len(calls[p]) : calls[p][i].svc = svc}
Printed(p, line) == \E i \in 1..Len(out[p]) : out[p][i] = line
\* fetch_transcript has been entered and left line 44 behind
PastExtract(p) == pc[p] \notin {"idle", "fetch_transcript"}

\* C1: when extract_video_id yields no identifier, fetch_transcript returns
\* the error "Invalid YouTube URL." and the run calls no external service at
\* all; and the caption listing is only ever called with a non-empty
\* identifier.
C1_NoIdentifierNoCalls ==
    \A p \in Procs :
        /\ (PastExtract(p) /\ extract_video_id(video_url[p]) \in {None, <<>>})
              => /\ calls[p] = <<>>
                 /\ ret[p] = Return(None, <<"Invalid YouTube URL.">>)
                 /\ pc[p] \in {"main_check", "done"}
        /\ \A i \in CallsTo(p, "list_transcripts") :
              calls[p][i].arg \notin {None, <<>>}

C1_Witness ==
    \E p \in Procs :
        /\ pc[p] = "done"
        /\ video_url[p] = UrlNotAUrl
        /\ video_id[p] = None
        /\ out[p] = << <<"Error: ", "Invalid YouTube URL.">> >>

\* track i is the first of its kind in the list ts
FirstOfKind(ts, i, gen) ==
    /\ ts[i].is_generated = gen
    /\ \A j \in 1..(i - 1) : ts[j].is_generated # gen
HasManual(ts) == \E j \in 1..Len(ts) : ~ts[j].is_generated

\* C2: the track whose text is fetched is the first manually-created track
\* of the returned list when the list has one, wherever the auto-generated
\* tracks sit, and the first auto-generated track otherwise.
C2_FetchesFirstManualElseFirstAuto ==
    [][\A p \in Procs :
         (pc[p] = "fetch" /\ pc'[p] # "fetch") =>
            \E i \in 1..Len(transcripts[p]) :
               /\ FirstOfKind(transcripts[p], i, ~HasManual(transcripts[p]))
               /\ calls'[p] = Append(calls[p],
                     Call("fetch", <<transcripts[p][i].language_code>>))]_vars

\* a manual track listed after an auto-generated one has been fetched
C2_Witness ==
    \E p \in Procs :
        /\ fetched[p] = "ok"
        /\ calls[p][Len(calls[p])] = Call("fetch", <<"l2">>)
        /\ ret[p].text = <<"captions", "l2">> \o video_id[p]

\* C3 (as claimed): when the listing reports captions disabled or returns an
\* empty list, the run is routed to the fallback and never to the generic
\* error branch: download_audio is the next call, transcribe_audio follows,
\* and the summarizer, when called, gets the transcribed text.
C3_DisabledOrEmptyRoutesToFallback ==
    \A p \in Procs :
        listed[p] \in {"disabled", "empty"} =>
            /\ ~(ret[p].how = "returned" /\ ret[p].error # None)
            /\ \/ pc[p] = "download_audio"
               \/ /\ Len(calls[p]) >= 2
                  /\ calls[p][2] = Call("download", video_url[p])
            /\ pc[p] \notin {"download_audio", "transcribe_audio"} =>
                  /\ Len(calls[p]) >= 3
                  /\ calls[p][3].svc = "transcribe_audio"
            /\ \A i \in CallsTo(p, "generate_content") :
                  /\ i = 5
                  /\ calls[p][4].svc = "speech_to_text"
                  /\ calls[p][i].arg = SpokenText(heard[p])

\* C4: a failure of the listing call or of the fetch call other than
\* captions-disabled makes fetch_transcript return no text and an error string
\* that carries the failure description; the call is not retried, neither
\* download_audio nor transcribe_audio is invoked, main prints the error and
\* the summarizer is never called.
C4_OtherFailureAbortsWithError ==
    \A p \in Procs :
        (listed[p] = "error" \/ fetched[p] = "error") =>
            /\ ret[p] = Return(None, ErrorOf(IF listed[p] = "error"
                                             THEN "list_transcripts" ELSE "fetch"))
            /\ Cardinality(CallsTo(p, "list_transcripts")) = 1
            /\ Cardinality(CallsTo(p, "fetch")) = (IF listed[p] = "error" THEN 0 ELSE 1)
            /\ \A i \in 1..Len(calls[p]) : calls[p][i].svc \in {"list_transcripts", "fetch"}
            /\ pc[p] \in {"main_check", "done"}
            /\ pc[p] = "done" => out[p] = << <<"Error: ">> \o ret[p].error >>

C4_Witness ==
    \E p \in Procs :
        /\ pc[p] = "done"
        /\ fetched[p] = "error"
        /\ out[p] = << <<"Error: ", "Error: ", "fetch">> >>

\* C5 (as claimed): fetch_transcript always hands main either a text and no
\* error or no text and an error description, also when download_audio
\* returned absence or transcribe_audio failed.
C5_FailureAlwaysReturnedAsError ==
    \A p \in Procs :
        /\ ret[p].how # "raised"
        /\ pc[p] \in {"main_check", "summarize", "done", "crashed"} =>
              /\ ret[p].how = "returned"
              /\ (ret[p].text = None) # (ret[p].error = None)

\* C6: when the backend throws, or no file exists at the path afterwards,
\* download_audio returns None; transcribe_audio is invoked all the same,
\* with None, and fails; the run prints no summary.
C6_FailedDownloadStillTranscribes ==
    \A p \in Procs :
        /\ (downloaded[p] \in {"threw", "threw_wrote"}
              \/ (downloaded[p] # "none" /\ ~Exists(file)))
              => audio_path[p] = None
        /\ (downloaded[p] # "none" /\ audio_path[p] = None)
              => /\ pc[p] \in {"transcribe_audio", "crashed"}
                 /\ pc[p] = "crashed" =>
                       /\ calls[p][Len(calls[p])] = Call("transcribe_audio", None)
                       /\ CallsTo(p, "speech_to_text") = {}
                       /\ CallsTo(p, "generate_content") = {}
                       /\ out[p] = <<>>

C6_Witness ==
    \E p \in Procs :
        /\ pc[p] = "crashed"
        /\ downloaded[p] = "threw_wrote"
        /\ Exists(file)
        /\ calls[p][Len(calls[p])] = Call("transcribe_audio", None)

\* C7: the header and a summary are printed at most once, and only when the
\* acquisition returned no error and the summarizer returned; when the
\* summarizer fails, main catches the failure and prints an error message,
\* and neither the header nor any summary is printed.
C7_SummaryOnlyOnSuccess ==
    \A p \in Procs :
        /\ Cardinality({i \in 1..Len(out[p]) : out[p][i] = Header}) <= 1
        /\ Cardinality({i \in 1..Len(out[p]) : out[p][i][1] = "summary of"}) <= 1
        /\ (Printed(p, Header) \/ \E i \in 1..Len(out[p]) : out[p][i][1] = "summary of")
              => /\ ret[p].how = "returned"
                 /\ ret[p].error = None
                 /\ summarized[p] = "ok"
                 /\ out[p] = << <<"Transcript successfully fetched.">>, Header,
                                SummaryOf(ret[p].text) >>
        /\ summarized[p] = "failed"
              => /\ pc[p] = "done"
                 /\ out[p] = << <<"Transcript successfully fetched.">>,
                                SummarizationError >>

C7_Witness ==
    \E p \in Procs :
        /\ pc[p] = "done"
        /\ summarized[p] = "failed"
        /\ out[p][Len(out[p])] = SummarizationError

\* the network location of u is u[b..e]: it follows "<scheme>://" or a leading
\* "//" and runs to the end of u or to the next "/" or "?"
IsNetloc(u, b, e) ==
    /\ \/ /\ b >= 2
          /\ u[b - 1] = "https://"
          /\ \A i \in 1..(b - 2) : u[i] \in SchemeTok
       \/ /\ b = 3
          /\ u[1] = "/"
          /\ u[2] = "/"
    /\ \A i \in b..e : u[i] \notin {"/", "?"}
    /\ e = Len(u) \/ u[e + 1] \in {"/", "?"}

\* u has the canonical host
CanonicalHostUrl(u) ==
    \E b \in 1..Len(u) : \E e \in b..Len(u) :
        /\ IsNetloc(u, b, e)
        /\ SubSeq(u, b, e) \in {<<"www.", "youtube.com">>, <<"youtube.com">>}

\* the query of u has a field named v with a value: "v=" opens a field (it
\* follows the first "?" or a "&") and something other than "&" follows it
CarriesV(u) ==
    \E j \in 2..(Len(u) - 1) :
        /\ u[j] = "v="
        /\ \/ u[j - 1] = "&" /\ \E q \in 1..(j - 2) : u[q] = "?"
           \/ u[j - 1] = "?" /\ \A q \in 1..(j - 2) : u[q] # "?"
        /\ u[j + 1] # "&"

\* shape (a): the canonical host and a v query parameter
ShapeQueryParameter(u) == CanonicalHostUrl(u) /\ CarriesV(u)

\* shape (b): the short-link host, after an optional scheme and an optional
\* "www.", followed by "/" and an identifier
ShapeShortLink(u) ==
    \E b \in 1..3 :
        /\ Len(u) >= b + 2
        /\ SubSeq(u, 1, b - 1) \in
              {<<>>, <<"https://">>, <<"www.">>, <<"https://", "www.">>}
        /\ u[b] = "youtu.be"
        /\ u[b + 1] = "/"
        /\ u[b + 2] \notin {"?", "&"}

C9_LastWriterWins ==
    [][\A p \in Procs :
         /\ (pc[p] = "download_audio" /\ pc'[p] = "transcribe_audio"
               /\ downloaded'[p] \in {"wrote", "threw_wrote"})
               => file' = [video |-> video_url[p], inv |-> inv[p]]
         /\ (pc[p] = "transcribe_audio" /\ pc'[p] = "main_check")
               => /\ heard'[p] = file
                  /\ ret'[p].text = SpokenText(file)]_vars

\* run p downloaded its own audio, run q overwrote it before p transcribed,
\* and p printed the summary of q's video
C9_Witness ==
    \E p \in Procs : \E q \in Procs \ {p} :
        /\ downloaded[p] = "wrote"
        /\ pc[q] \notin {"idle", "fetch_transcript", "list_transcripts", "fetch",
                         "download_audio"}
        /\ downloaded[q] = "wrote"
        /\ video_url[q] # video_url[p]
        /\ heard[p] = [video |-> video_url[q], inv |-> inv[q]]
        /\ Printed(p, Header)
        /\ Printed(p, SummaryOf(SpokenText([video |-> video_url[q], inv |-> inv[q]])))

\* C10 (as claimed): in successive runs, whenever download_audio returns the
\* path, the file there holds audio written by that invocation for that
\* run's video, never a file left by an earlier run.
C10_ReturnedPathHoldsOwnAudio ==
    \A p \in Procs :
        audio_path[p] = output_path =>
            file = [video |-> video_url[p], inv |-> inv[p]]

============================================================================
